---- MODULE Spec2Model ----
(***************************************************************************)
(* CricValue valuation engine (src/app.py).                                *)
(*                                                                         *)
(* The script loads a ball-by-ball delivery table, lets the sidebar pick   *)
(* an analysis mode and a season, runs calculate_vals on the table and     *)
(* filters the returned valuation table by role and team.                  *)
(*                                                                         *)
(* Numbers: the code computes in binary floating point; the model computes *)
(* the same expressions, in the same order, over exact non-negative        *)
(* rationals <<numerator, denominator>> kept in lowest terms.              *)
(***************************************************************************)
EXTENDS Integers, Sequences, FiniteSets, TLC

\* Largest number of delivery rows the loaded table holds.
MaxRows == 2

(***************************************************************************)
(* Exact rational arithmetic (stands for the float arithmetic of the code) *)
(***************************************************************************)
RECURSIVE GCD(_, _)
GCD(a, b) == IF b = 0 THEN a ELSE GCD(b, a % b)

Rat(n, d) == LET g == GCD(n, d) IN <<n \div g, d \div g>>

RInt(n) == <<n, 1>>

RMul(x, y) ==
    LET g1 == GCD(x[1], y[2])
        g2 == GCD(y[1], x[2])
    IN  <<(x[1] \div g1) * (y[1] \div g2), (x[2] \div g2) * (y[2] \div g1)>>

RDiv(x, y) == RMul(x, <<y[2], y[1]>>)

RAdd(x, y) ==
    LET g == GCD(x[2], y[2])
    IN  Rat(x[1] * (y[2] \div g) + y[1] * (x[2] \div g), (x[2] \div g) * y[2])

\* x - y for x >= y
RSub(x, y) ==
    LET g == GCD(x[2], y[2])
    IN  Rat(x[1] * (y[2] \div g) - y[1] * (x[2] \div g), (x[2] \div g) * y[2])

\* x < y, by comparing integer parts and then the reciprocals of the
\* fractional parts, so that no product of large numbers is formed.
RECURSIVE RLess(_, _)
RLess(x, y) ==
    LET qx == x[1] \div x[2]
        qy == y[1] \div y[2]
        rx == x[1] % x[2]
        ry == y[1] % y[2]
    IN  IF qx # qy THEN qx < qy
        ELSE IF ry = 0 THEN FALSE
        ELSE IF rx = 0 THEN TRUE
        ELSE RLess(<<y[2], ry>>, <<x[2], rx>>)

RLeq(x, y) == ~RLess(y, x)

\* Python's max(a, b) and min(a, b): the first argument unless the second
\* is strictly greater (smaller).
RMax(a, b) == IF RLess(a, b) THEN b ELSE a
RMin(a, b) == IF RLess(b, a) THEN b ELSE a

(***************************************************************************)
(* The delivery table                                                      *)
(***************************************************************************)
Players == {"A", "B", "C", "D"}

\* pd.to_datetime(..., errors='coerce') turns an unparseable date into NaT,
\* and .dt.year of NaT is NaN.
NaT == 0
NaN == 0

\* A date is yyyymm; a match is played on one date.
MatchIds == 1 .. 4
MatchDate == <<202304, 202404, 202504, NaT>>

year_of(date) == IF date = NaT THEN NaN ELSE date \div 100

\* The two sides of each match, as the free-text team names of the data.
SideOne == <<"Deccan Chargers", "Mumbai Indians", "Mumbai Indians", "Deccan Chargers">>
SideTwo == <<"Mumbai Indians", "Deccan Chargers", "Chennai Super Kings", "Chennai Super Kings">>

TeamIn(m, p) == IF p \in {"A", "C"} THEN SideOne[m] ELSE SideTwo[m]

\* striker and bowler of a delivery
Pairs == {<<"A", "B">>, <<"B", "A">>, <<"C", "D">>}

\* what happens on a ball: <<runs_off_bat, total_runs, is_wicket>>
\* (a wicket, a six off a no-ball)
Outcomes == {<<0, 0, 1>>, <<6, 7, 0>>}

DeliveryRecord(m, pr, o) ==
    [match_id     |-> m,
     date         |-> MatchDate[m],
     year         |-> year_of(MatchDate[m]),
     batter       |-> pr[1],
     bowler       |-> pr[2],
     batting_team |-> TeamIn(m, pr[1]),
     bowling_team |-> TeamIn(m, pr[2]),
     runs_off_bat |-> o[1],
     total_runs   |-> o[2],
     is_wicket    |-> o[3]]

Deliveries == {DeliveryRecord(m, pr, o) : m \in MatchIds, pr \in Pairs, o \in Outcomes}

VARIABLES pc, df_main, mode, selected_year, vals, fault

vars == <<pc, df_main, mode, selected_year, vals, fault>>

\* selected_year = None
None == 0

\* pd.DataFrame(): no rows and no columns
EmptyFrame == [columns |-> FALSE, rows |-> <<>>]

(***************************************************************************)
(* Helpers over tables                                                     *)
(***************************************************************************)
RECURSIVE SumCol(_, _)
SumCol(rows, col) ==
    IF rows = <<>> THEN 0 ELSE Head(rows)[col] + SumCol(Tail(rows), col)

RECURSIVE SumOver(_, _)
SumOver(S, f) ==
    IF S = {} THEN 0
    ELSE LET x == CHOOSE y \in S : TRUE IN f[x] + SumOver(S \ {x}, f)

MaxOf(S) == CHOOSE x \in S : \A y \in S : y <= x

ColSet(rows, col) == {rows[i][col] : i \in DOMAIN rows}

\* all orders of the indices 1 .. n
Perms(n) == {f \in [1 .. n -> 1 .. n] : \A i, j \in 1 .. n : f[i] = f[j] => i = j}

\* df.sort_values('date'): ascending, NaT placed last; rows with equal dates
\* come out in an order the sort does not fix.
DateBefore(d1, d2) == d1 # NaT /\ (d2 = NaT \/ d1 < d2)

SortOrders(df) ==
    {f \in Perms(Len(df)) :
        \A i, j \in 1 .. Len(df) : i < j => ~DateBefore(df[f[j]].date, df[f[i]].date)}

sort_values_date(df, f) == [i \in 1 .. Len(df) |-> df[f[i]]]

\* groupby(key)[col].last(): the value of col in the last row of the group
GroupLast(rows, key, p, col) ==
    rows[MaxOf({i \in DOMAIN rows : rows[i][key] = p})][col]

\* df[df['year'] == selected_year]  /  df[df['year'] >= 2024]
RecentFrom == 2024
ProjectedLatestYear == 2025

df_subset(df, sy) ==
    IF sy # None
    THEN SelectSeq(df, LAMBDA r : r.year # NaN /\ r.year = sy)
    ELSE SelectSeq(df, LAMBDA r : r.year # NaN /\ r.year >= RecentFrom)

latest_year(sy) == IF sy # None THEN sy ELSE ProjectedLatestYear

RowsOf(rows, key, p) == SelectSeq(rows, LAMBDA r : r[key] = p)

(***************************************************************************)
(* calculate_vals, column by column                                        *)
(***************************************************************************)
\* last_team: the bowling entry of a player comes after the batting entry
\* in the concatenation, so groupby(level=0).last() keeps the bowling one.
last_team_bat(df_sorted, p) == GroupLast(df_sorted, "batter", p, "batting_team")
last_team_bowl(df_sorted, p) == GroupLast(df_sorted, "bowler", p, "bowling_team")

HasTeam(df, p) == p \in ColSet(df, "batter") \cup ColSet(df, "bowler")

last_team(df_sorted, p) ==
    IF p \in ColSet(df_sorted, "bowler") THEN last_team_bowl(df_sorted, p)
    ELSE last_team_bat(df_sorted, p)

Team(df_sorted, p) ==
    IF HasTeam(df_sorted, p) THEN last_team(df_sorted, p) ELSE "Free Agent"

\* last_active: the largest year of any delivery of the player, NaN skipped;
\* a player with no parseable year gets 2008.
DefaultLastActive == 2008

last_active(df, p) ==
    LET ys == {df[i].year : i \in {j \in DOMAIN df : df[j].batter = p \/ df[j].bowler = p}}
                 \ {NaN}
    IN  IF ys = {} THEN DefaultLastActive ELSE MaxOf(ys)

\* matches: distinct match ids per (year, batter); max_matches: the largest
\* number of distinct match ids of a year; availability: the mean over the
\* player's years.
matches(sub, y, p) ==
    Cardinality({sub[i].match_id : i \in {j \in DOMAIN sub : sub[j].year = y /\ sub[j].batter = p}})

max_matches(sub) ==
    MaxOf({Cardinality({sub[i].match_id : i \in {j \in DOMAIN sub : sub[j].year = y}}) :
              y \in ColSet(sub, "year")})

avg_matches(sub, p) ==
    LET ys == {sub[i].year : i \in {j \in DOMAIN sub : sub[j].batter = p}}
    IN  IF ys = {} THEN RInt(0)
        ELSE Rat(SumOver(ys, [y \in ys |-> matches(sub, y, p)]), Cardinality(ys))

avail_score(sub, p) ==
    IF p \notin ColSet(sub, "batter") THEN RInt(0)
    ELSE RMin(RDiv(avg_matches(sub, p), RInt(max_matches(sub))), RInt(1))

\* bat['sr'] and bat['bat_points']
replace_zero(balls) == IF balls = 0 THEN 1 ELSE balls

sr(runs, balls) == RMul(Rat(runs, replace_zero(balls)), RInt(100))

\* bat_points with the strike-rate factor not squared
bat_points_unsquared(runs, s) ==
    RDiv(RMul(RInt(runs), RDiv(s, RInt(100))), Rat(5, 4))

bat_points(runs, s) ==
    LET q == RDiv(s, RInt(100))
    IN  RDiv(RMul(RInt(runs), RMul(q, q)), Rat(5, 4))

\* bowl['eco'] and bowl['bowl_points']
eco(runs, balls) == RMul(Rat(runs, replace_zero(balls)), RInt(6))

bowl_points(wkts, e) ==
    IF wkts > 0
    THEN LET q == RDiv(RInt(9), RMax(RInt(4), e))
         IN  RMul(RMul(RInt(wkts), RMul(q, q)), RInt(35))
    ELSE RInt(0)

\* perf_points and adjusted_score
SecondaryWeight == Rat(2, 5)
AvailabilityWeight == Rat(1, 10)

perf_points(bp, wp) == RAdd(RMax(bp, wp), RMul(RMin(bp, wp), SecondaryWeight))

adjusted_score(perf, avail) == RMul(perf, RAdd(RInt(1), RMul(avail, AvailabilityWeight)))

\* Series.rank(ascending=False), method 'average': the mean of the positions
\* that the rows of equal score occupy.
rank(rows, row) ==
    LET above == Cardinality({q \in rows : RLess(row.adjusted_score, q.adjusted_score)})
        same  == Cardinality({q \in rows : q.adjusted_score = row.adjusted_score})
    IN  Rat(2 * above + same + 1, 2)

get_price(r) ==
    IF RLeq(r, RInt(3)) THEN RAdd(RInt(28), RSub(RInt(3), r))
    ELSE LET price == RDiv(RInt(35), RAdd(RInt(1), RMul(Rat(45, 1000), r)))
         IN  RMin(RInt(35), price)

AllRounderAbove == 50

\* get_role with the batting comparison not strict
get_role_ge(bp, wp) ==
    IF RLess(RInt(AllRounderAbove), bp) /\ RLess(RInt(AllRounderAbove), wp) THEN "All-Rounder"
    ELSE IF RLeq(wp, bp) THEN "Batter"
    ELSE "Bowler"

get_role(bp, wp) ==
    IF RLess(RInt(AllRounderAbove), bp) /\ RLess(RInt(AllRounderAbove), wp) THEN "All-Rounder"
    ELSE IF RLess(wp, bp) THEN "Batter"
    ELSE "Bowler"

team_map ==
    [t \in {"Chennai Super Kings", "Mumbai Indians", "Royal Challengers Bangalore",
            "Royal Challengers Bengaluru", "Kolkata Knight Riders", "Sunrisers Hyderabad",
            "Rajasthan Royals", "Delhi Capitals", "Delhi Daredevils", "Punjab Kings",
            "Kings XI Punjab", "Lucknow Super Giants", "Gujarat Titans"} |->
        CASE t = "Chennai Super Kings" -> "CSK"
          [] t = "Mumbai Indians" -> "MI"
          [] t \in {"Royal Challengers Bangalore", "Royal Challengers Bengaluru"} -> "RCB"
          [] t = "Kolkata Knight Riders" -> "KKR"
          [] t = "Sunrisers Hyderabad" -> "SRH"
          [] t = "Rajasthan Royals" -> "RR"
          [] t \in {"Delhi Capitals", "Delhi Daredevils"} -> "DC"
          [] t \in {"Punjab Kings", "Kings XI Punjab"} -> "PBKS"
          [] t = "Lucknow Super Giants" -> "LSG"
          [] t = "Gujarat Titans" -> "GT"]

\* merged['Team'].map(team_map).fillna(merged['Team'])
Team_Code(team) == IF team \in DOMAIN team_map THEN team_map[team] ELSE team

\* One row of merged, before the rank is known.
MergedRow(df, df_sorted, sub, sy, p) ==
    LET b     == RowsOf(sub, "batter", p)
        w     == RowsOf(sub, "bowler", p)
        runs  == SumCol(b, "runs_off_bat")
        balls == Len(b)
        s     == IF b = <<>> THEN RInt(0) ELSE sr(runs, balls)
        bp    == IF b = <<>> THEN RInt(0) ELSE bat_points(runs, s)
        wk    == SumCol(w, "is_wicket")
        wr    == SumCol(w, "total_runs")
        wb    == Len(w)
        e     == IF w = <<>> THEN RInt(0) ELSE eco(wr, wb)
        wp    == IF w = <<>> THEN RInt(0) ELSE bowl_points(wk, e)
        la    == last_active(df, p)
        av0   == avail_score(sub, p)
        av    == IF sy = None /\ la < latest_year(sy) THEN RInt(0) ELSE av0
        perf  == perf_points(bp, wp)
        tm    == Team(df_sorted, p)
    IN  [Player |-> p,
         bat_runs |-> runs, bat_balls |-> balls, sr |-> s, bat_points |-> bp,
         bowl_wkts |-> wk, bowl_runs |-> wr, bowl_balls |-> wb, eco |-> e,
         bowl_points |-> wp,
         avg_matches |-> avg_matches(sub, p), avail_score |-> av,
         Team |-> tm, last_active |-> la,
         perf_points |-> perf, adjusted_score |-> adjusted_score(perf, av),
         Role |-> get_role(bp, wp), Team_Code |-> Team_Code(tm)]

\* merged with rank and Market_Value: the set of its rows
Merged(df, df_sorted, sub, sy) ==
    LET ps   == ColSet(sub, "batter") \cup ColSet(sub, "bowler")
        base == {MergedRow(df, df_sorted, sub, sy, p) : p \in ps}
    IN  {LET r == rank(base, row)
         IN  row @@ [rank |-> r, Market_Value |-> get_price(r)] : row \in base}

\* merged.sort_values('Market_Value', ascending=False): every order of the
\* rows in which Market_Value never increases.
sort_values_Market_Value(merged) ==
    LET n == Cardinality(merged)
    IN  {t \in [1 .. n -> merged] :
            /\ \A i, j \in 1 .. n : t[i] = t[j] => i = j
            /\ \A i, j \in 1 .. n :
                 i < j => ~RLess(t[i].Market_Value, t[j].Market_Value)}

\* calculate_vals(df, selected_year): the set of tables it may return, given
\* the order f in which sort_values('date') left the rows.
calculate_vals(df, sy, f) ==
    IF df = <<>> THEN {EmptyFrame}
    ELSE LET sub == df_subset(df, sy)
         IN  IF sub = <<>> THEN {EmptyFrame}
             ELSE {[columns |-> TRUE, rows |-> t] :
                     t \in sort_values_Market_Value(
                              Merged(df, sort_values_date(df, f), sub, sy))}

(***************************************************************************)
(* The script: load, sidebar, engine, filters                              *)
(***************************************************************************)
Roles == {"Batter", "Bowler", "All-Rounder"}

\* what the two multiselect widgets may hold
RoleFilters == {Roles, {"Batter"}, {"Bowler", "All-Rounder"}}
TeamFilters == {{}, {"MI"}}

Init ==
    /\ pc = "load"
    /\ df_main = <<>>
    /\ mode = "Projected Market Value"
    /\ selected_year = None
    /\ vals = EmptyFrame
    /\ fault = "none"

\* load_data_smart: read_csv brings in one more row of the file; its date
\* is coerced and its year derived.
LoadRow ==
    /\ pc = "load"
    /\ Len(df_main) < MaxRows
    /\ \E d \in Deliveries : df_main' = Append(df_main, d)
    /\ UNCHANGED <<pc, mode, selected_year, vals, fault>>

\* sorted(df_main['year'].dropna().unique())
years(df) == ColSet(df, "year") \ {NaN}

\* The sidebar with the radio on "Projected Market Value".
SidebarProjected ==
    /\ pc = "load"
    /\ mode' = "Projected Market Value"
    /\ selected_year' = None
    /\ pc' = "engine"
    /\ UNCHANGED <<df_main, vals, fault>>

\* The sidebar with the radio on "Historical Season": the select box offers
\* the years of the table and holds None when there is none to offer.
SidebarHistorical ==
    /\ pc = "load"
    /\ mode' = "Historical Season"
    /\ IF df_main # <<>> /\ years(df_main) # {}
       THEN selected_year' \in years(df_main)
       ELSE selected_year' = None
    /\ pc' = "engine"
    /\ UNCHANGED <<df_main, vals, fault>>

\* if df_main.empty: st.stop()
StopEmpty ==
    /\ pc = "engine"
    /\ df_main = <<>>
    /\ pc' = "stopped"
    /\ UNCHANGED <<df_main, mode, selected_year, vals, fault>>

\* vals = calculate_vals(df_main, selected_year)
RunEngine ==
    /\ pc = "engine"
    /\ df_main # <<>>
    /\ \E f \in SortOrders(df_main) : vals' \in calculate_vals(df_main, selected_year, f)
    /\ pc' = "filter"
    /\ UNCHANGED <<df_main, mode, selected_year, fault>>

\* vals[vals['Role'].isin(role_filter)] on a table without a 'Role' column
FilterFault ==
    /\ pc = "filter"
    /\ ~vals.columns
    /\ fault' = "KeyError"
    /\ pc' = "fault"
    /\ UNCHANGED <<df_main, mode, selected_year, vals>>

\* vals = vals[vals['Role'].isin(role_filter)], then, with a team filter,
\* vals = vals[vals['Team_Code'].isin(team_filter)]
ApplyFilters ==
    /\ pc = "filter"
    /\ vals.columns
    /\ \E role_filter \in RoleFilters, team_filter \in TeamFilters :
          vals' = [vals EXCEPT !.rows =
                      SelectSeq(@, LAMBDA r :
                          /\ r.Role \in role_filter
                          /\ (team_filter # {} => r.Team_Code \in team_filter))]
    /\ pc' = "render"
    /\ UNCHANGED <<df_main, mode, selected_year, fault>>

Next ==
    \/ LoadRow
    \/ SidebarProjected
    \/ SidebarHistorical
    \/ StopEmpty
    \/ RunEngine
    \/ FilterFault
    \/ ApplyFilters

Spec == Init /\ [][Next]_vars

(***************************************************************************)
(* Properties of the table calculate_vals returns.  The table is in vals   *)
(* from the return of calculate_vals until the filters replace it, that    *)
(* is, while pc = "filter".                                                *)
(***************************************************************************)
Returned == pc = "filter"

Rows == {vals.rows[i] : i \in DOMAIN vals.rows}

\* the deliveries of the season window the run used
Window == df_subset(df_main, selected_year)

\* the positions of the window at which p is the striker / the bowler
Faced(p) == {i \in DOMAIN Window : Window[i].batter = p}
Bowled(p) == {i \in DOMAIN Window : Window[i].bowler = p}

WindowMatches(p) == {Window[i].match_id : i \in Faced(p) \cup Bowled(p)}

\* C1: every Market_Value of a returned table is >= 0 and <= 30.0, the value
\* of rank 1, for every rank the ranking produces, averaged ranks included.
C1_ValueWithinCeiling ==
    Returned =>
        \A r \in Rows : RLeq(RInt(0), r.Market_Value) /\ RLeq(r.Market_Value, RInt(30))

\* C2: within one returned table, a smaller rank never has a smaller
\* Market_Value: rank(A) < rank(B) implies Market_Value(A) >= Market_Value(B).
C2_MonotoneInRank ==
    Returned =>
        \A a, b \in Rows :
            RLess(a.rank, b.rank) => RLeq(b.Market_Value, a.Market_Value)

\* C3: a player with fewer than 3 distinct matches in the season window has
\* no row in the returned table.
C3_MinimumMatches ==
    Returned =>
        \A p \in Players :
            Cardinality(WindowMatches(p)) < 3 => \A r \in Rows : r.Player # p

\* C4: when the season window holds no delivery, the run ends with an empty
\* table and no fault: calculate_vals returns no rows and nothing raises in
\* the code that consumes the table.
C4_EmptyWindowNoFault ==
    (pc \in {"filter", "render", "fault"} /\ Window = <<>>) =>
        (vals.rows = <<>> /\ fault = "none")

\* C5: in every returned row, bat_points = runs * (sr/100)^2 / 1.25 with
\* sr = runs*100/balls, that is 4*runs^3 / (5*balls^2), and bowl_points =
\* wickets * (9/max(4, eco))^2 * 35 with eco = 6*conceded/bowled when
\* wickets > 0, else 0, over the player's deliveries of the window; a player
\* without batting (bowling) deliveries has bat_points (bowl_points) 0; and
\* 300 runs off 200 balls give 540, 10 wickets for 180 off 120 balls give 350.
C5_RawPoints ==
    /\ bat_points(300, sr(300, 200)) = RInt(540)
    /\ bowl_points(10, eco(180, 120)) = RInt(350)
    /\ Returned =>
        \A r \in Rows :
            LET p        == r.Player
                runs     == SumOver(Faced(p), [i \in Faced(p) |-> Window[i].runs_off_bat])
                balls    == Cardinality(Faced(p))
                wickets  == SumOver(Bowled(p), [i \in Bowled(p) |-> Window[i].is_wicket])
                conceded == SumOver(Bowled(p), [i \in Bowled(p) |-> Window[i].total_runs])
                bowled   == Cardinality(Bowled(p))
                bp       == r.bat_points
                wp       == r.bowl_points
            IN  /\ IF balls = 0 THEN bp = RInt(0)
                   ELSE bp[1] * 5 * balls * balls = 4 * runs * runs * runs * bp[2]
                /\ IF bowled = 0 \/ wickets = 0 THEN wp = RInt(0)
                   ELSE IF 6 * conceded <= 4 * bowled
                        THEN wp[1] * 16 = wickets * 2835 * wp[2]
                        ELSE wp[1] * 4 * conceded * conceded
                                 = wickets * 315 * bowled * bowled * wp[2]

\* C5 happens: a returned table holds a row with runs off the bat, and a row
\* of a player who did not bat and took a wicket at an economy above 4.
C5_Witness ==
    /\ Returned
    /\ \E r \in Rows : r.bat_runs > 0 /\ r.bat_balls > 1
    /\ \E r \in Rows : r.bat_balls = 0 /\ r.bowl_wkts > 0 /\ RLess(RInt(4), r.eco)

\* the role the claim gives to a pair of scores
Exceeds(x, n) == x[1] > n * x[2]
Greater(x, y) == x[1] * y[2] > y[1] * x[2]

ClaimedRole(bp, wp) ==
    IF Exceeds(bp, 50) /\ Exceeds(wp, 50) THEN "All-Rounder"
    ELSE IF Greater(bp, wp) THEN "Batter"
    ELSE "Bowler"

RoleFromScores ==
    /\ \A r \in Rows : r.Role = ClaimedRole(r.bat_points, r.bowl_points)
    /\ \A a, b \in Rows :
          (a.bat_points = b.bat_points /\ a.bowl_points = b.bowl_points) => a.Role = b.Role

\* C6 as stated: Role is "All-Rounder" exactly when both scores exceed the
\* threshold, else "Batter" exactly when bat_points > bowl_points, else
\* "Bowler"; equal pairs get equal roles; and every player with batting
\* deliveries and no bowling deliveries in the window is a "Batter".
C6_RoleAsStated ==
    Returned =>
        /\ RoleFromScores
        /\ \A r \in Rows :
              (Faced(r.Player) # {} /\ Bowled(r.Player) = {}) => r.Role = "Batter"

\* C6 amended: as C6, with the last part for the players with batting
\* deliveries, at least one run off the bat and no bowling deliveries in
\* the window.
C6_Role ==
    Returned =>
        /\ RoleFromScores
        /\ \A r \in Rows :
              (Faced(r.Player) # {} /\ r.bat_runs > 0 /\ Bowled(r.Player) = {})
                  => r.Role = "Batter"

\* C6 happens: a returned table holds two players with batting deliveries
\* and no bowling deliveries in the window, one with runs off the bat, who
\* is a "Batter", and one without, whose scores are equal and who is a
\* "Bowler".
C6_Witness ==
    /\ Returned
    /\ \E r \in Rows :
          /\ Faced(r.Player) # {} /\ Bowled(r.Player) = {}
          /\ r.bat_runs > 0 /\ r.Role = "Batter"
    /\ \E r \in Rows :
          /\ Faced(r.Player) # {} /\ Bowled(r.Player) = {}
          /\ r.bat_points = r.bowl_points /\ r.Role = "Bowler"

\* combined = max(bat_points, bowl_points) + w * min(bat_points, bowl_points),
\* with the weight the code uses
Combined(r) ==
    RAdd(RMax(r.bat_points, r.bowl_points),
         RMul(SecondaryWeight, RMin(r.bat_points, r.bowl_points)))

\* C7: within one returned table, combined(A) > combined(B) implies
\* rank(A) < rank(B) and Market_Value(A) >= Market_Value(B).
C7_RankedByCombined ==
    Returned =>
        \A a, b \in Rows :
            RLess(Combined(b), Combined(a)) =>
                (RLess(a.rank, b.rank) /\ RLeq(b.Market_Value, a.Market_Value))

\* C8: the top-ranked rows of a returned table have Market_Value 30.0, and a
\* row of rank r > 3 has min(30, 30 / (1 + 0.04 * (r - 1))).
C8_DecayCurve ==
    Returned =>
        \A r \in Rows :
            /\ (\A q \in Rows : RLeq(r.rank, q.rank)) => r.Market_Value = RInt(30)
            /\ RLess(RInt(3), r.rank) =>
                 r.Market_Value =
                    RMin(RInt(30),
                         RDiv(RInt(30),
                              RAdd(RInt(1), RMul(Rat(4, 100), RSub(r.rank, RInt(1))))))

\* the teams of p's deliveries of the latest parseable date of the table
LatestTeams(p) ==
    LET mine == {i \in DOMAIN df_main :
                    df_main[i].date # NaT /\ (df_main[i].batter = p \/ df_main[i].bowler = p)}
        last == {i \in mine : \A j \in mine : df_main[j].date <= df_main[i].date}
    IN  {IF df_main[i].batter = p THEN df_main[i].batting_team ELSE df_main[i].bowling_team :
            i \in last}

\* C9: a player whose chronologically latest delivery has team T (batting
\* team as striker, bowling team as bowler) has Team T in the returned table.
C9_LatestTeam ==
    Returned =>
        \A r \in Rows : \A T \in LatestTeams(r.Player) :
            LatestTeams(r.Player) = {T} => r.Team = T

\* C10: every Team_Code of a returned table is one of the short team codes
\* or "Free Agent".
C10_TeamCodeKnown ==
    Returned =>
        \A r \in Rows :
            r.Team_Code \in {"CSK", "MI", "RCB", "KKR", "SRH", "RR", "DC", "PBKS", "LSG",
                             "GT", "Free Agent"}

====
